---- MODULE Spec2Model ----
(***************************************************************************)
(* A model of the privileged core of NoIdea_OS:                            *)
(*   - the bump frame allocator        (src/src/memory/paging.rs)          *)
(*   - the manual page-table walk      (src/src/memory/paging.rs)          *)
(*   - the semaphore primitive         (src/src/sync.rs)                   *)
(*   - the syscall dispatcher          (src/src/interrupts/mod.rs)         *)
(*   - the syscall trampoline          (src/src/interrupts/mod.rs)         *)
(* Each component has its own specifications (SpecAlloc, SpecExhaust,      *)
(* SpecTranslate, SpecSem, SpecSemRegistry, SpecSemConc, SpecSys,          *)
(* SpecTramp, SpecPreempt); the variables of the components a              *)
(* specification does not use keep their initial value.                    *)
(***************************************************************************)
EXTENDS Integers, Sequences, FiniteSets, TLC

VARIABLES
    memory_map,   \* BootInfoFrameAllocator.memory_map: a sequence of regions
    next,         \* BootInfoFrameAllocator.next: the cursor
    returned,     \* what each allocate_frame call so far returned, in order
    SEMAPHORE_STORE, \* the registry: SemaphoreId -> Semaphore [count, queue]
    pc,           \* per caller: where it stands inside a semaphore call
    call,         \* per caller: the wait() it is in the middle of
    last,         \* the semaphore call that completed last, and its result
    PROCESS_MANAGER, \* the process manager behind its lock
    syscall,      \* the internal_syscall dispatch that ran last, and its result
    halted,       \* a panic has stopped the kernel
    empty_returned, \* what each EmptyFrameAllocator::allocate_frame call returned
    created,      \* per semaphore: the count given to Semaphore::new
    decrements,   \* per semaphore: the fetch_sub(1) of wait() done so far
    increments,   \* per semaphore: the fetch_add(1) of signal() done so far
    cr3,          \* Cr3: start address of the active level-4 table's frame
    page_tables,  \* physical memory: frame start address -> page table
    translated,   \* the _translate_addr call that ran last, and its result
    cpu,          \* per process: its register context and place in the handler
    running,      \* the process on the CPU
    gs_base,      \* GS.base
    kernel_gs_base, \* the KernelGSBase register that swapgs exchanges with
    mem,          \* memory: the stacks and the two scratch areas
    at_entry,     \* per process: the machine when it executed `syscall`
    events,       \* the steps of syscall_handler done so far, in order
    window,       \* per process: its preemption inside the entry sequence
    preemptions   \* how many times a process was preempted

allocVars == <<memory_map, next, returned>>
histVars == <<created, decrements, increments>>
semVars == <<SEMAPHORE_STORE, pc, call, last, histVars>>
sysVars == <<PROCESS_MANAGER, syscall>>
emptyVars == <<empty_returned>>
ptVars == <<cr3, page_tables, translated>>
trampVars == <<cpu, running, gs_base, kernel_gs_base, mem, at_entry, events, window,
               preemptions>>
lateVars == <<emptyVars, ptVars, trampVars>>
vars == <<memory_map, next, returned, SEMAPHORE_STORE, pc, call, last,
          PROCESS_MANAGER, syscall, halted, lateVars, histVars>>

(***************************************************************************)
(* Option<T>: None is the empty sequence, Some(x) the one-element one.     *)
(***************************************************************************)
None == <<>>
Some(x) == <<x>>
IsSome(o) == Len(o) = 1
Unwrap(o) == o[1]

(***************************************************************************)
(*                     FRAME ALLOCATOR (memory/paging.rs)                  *)
(***************************************************************************)
PageSize == 4096

\* Bounds of the explored memory maps and call sequences.
MaxFrames == 4      \* physical memory spans frames 0 .. MaxFrames-1
MaxRegions == 3     \* regions per memory map
MaxCalls == 6       \* allocate_frame calls per allocator

FrameAddrs == {f * PageSize : f \in 0..MaxFrames}

\* bootloader::bootinfo::MemoryRegion: a frame-aligned range and its type.
Regions ==
    {[start_addr |-> s, end_addr |-> e, region_type |-> t] :
        s \in FrameAddrs, e \in FrameAddrs, t \in {"Usable", "Reserved"}}

Overlap(r1, r2) ==
    /\ r1.start_addr < r2.end_addr
    /\ r2.start_addr < r1.end_addr

\* The memory maps init() may be given: the caller guarantees a valid map,
\* i.e. non-empty ranges that describe each physical frame at most once.
\* The regions come in any order: nothing in the allocator sorts them.
RECURSIVE MemoryMaps(_)
MemoryMaps(n) ==
    IF n = 0 THEN {<<>>}
    ELSE LET shorter == MemoryMaps(n - 1)
         IN  shorter \cup
             {Append(m, r) : <<m, r>> \in
                 {p \in shorter \X Regions :
                     /\ Len(p[1]) = n - 1
                     /\ p[2].start_addr < p[2].end_addr
                     /\ \A i \in 1..Len(p[1]) : ~Overlap(p[1][i], p[2])}}

RECURSIVE StepBy_Down(_, _, _)
StepBy_Down(start, end, step) ==
    IF start >= end THEN <<>>
    ELSE <<end - step>> \o StepBy_Down(start, end - step, step)

\* Range<u64>::step_by(step): start, start+step, ... while below end.
RECURSIVE StepBy(_, _, _)
StepBy(start, end, step) ==
    IF start >= end THEN <<>>
    ELSE <<start>> \o StepBy(start + step, end, step)

ContainingAddress_Coarse(addr) == addr - (addr % (2 * PageSize))

\* PhysFrame::containing_address: the frame's start address (align down).
ContainingAddress(addr) == addr - (addr % PageSize)

IsUsable_Any(r) == r.region_type \in {"Usable", "Reserved"}

\* .filter(|r| r.region_type == MemoryRegionType::Usable)
IsUsable(r) == r.region_type = "Usable"

\* .flat_map(|r| r.step_by(4096)) over the start..end ranges of `regions`,
\* then .map(PhysFrame::containing_address).
RECURSIVE FlatMapFrames(_)
FlatMapFrames(regions) ==
    IF regions = <<>> THEN <<>>
    ELSE LET r == Head(regions)
             addrs == StepBy(r.start_addr, r.end_addr, PageSize)
         IN  [i \in 1..Len(addrs) |-> ContainingAddress(addrs[i])]
                 \o FlatMapFrames(Tail(regions))

\* BootInfoFrameAllocator::usable_frames: the whole lazy sequence.
usable_frames(map) == FlatMapFrames(SelectSeq(map, IsUsable))

Nth_Unfused(seq, n) ==
    LET k == n % (Len(seq) + 1)
    IN  IF k < Len(seq) THEN Some(seq[k + 1]) ELSE None

Nth_OneBased(seq, n) == IF 0 < n /\ n <= Len(seq) THEN Some(seq[n]) ELSE None

\* Iterator::nth(n), 0-based.
Nth(seq, n) == IF n < Len(seq) THEN Some(seq[n + 1]) ELSE None

NextCursor_Skip(n) == n + 2

\* self.next += 1
NextCursor(n) == n + 1

\* BootInfoFrameAllocator::init
BootInfoFrameAllocatorInit ==
    /\ memory_map \in MemoryMaps(MaxRegions)
    /\ next = 0
    /\ returned = <<>>

\* No allocator in use (the specifications of the other components).
AllocIdle ==
    /\ memory_map = <<>>
    /\ next = 0
    /\ returned = <<>>

\* EmptyFrameAllocator: no call made yet.
EmptyInit == empty_returned = <<>>

\* EmptyFrameAllocator::allocate_frame
empty_allocate_frame ==
    /\ Len(empty_returned) < MaxCalls
    /\ empty_returned' = Append(empty_returned, None)
    /\ UNCHANGED <<allocVars, semVars, sysVars, halted, ptVars, trampVars>>

\* BootInfoFrameAllocator::allocate_frame
allocate_frame ==
    /\ next < MaxCalls
    /\ LET frame == Nth(usable_frames(memory_map), next)
       IN  /\ next' = NextCursor(next)
           /\ returned' = Append(returned, frame)
    /\ UNCHANGED memory_map
    /\ UNCHANGED <<semVars, sysVars, halted, lateVars>>

(***************************************************************************)
(*                          SEMAPHORE (sync.rs)                            *)
(***************************************************************************)
\* Bounds of the explored semaphores.
MaxCount == 2       \* counts explored: -MaxCount .. MaxCount
MaxNames == 2       \* process identities 1 .. MaxNames
MaxOps == 3         \* decrements, and increments, started per semaphore

\* AtomicI32: the count is a 32-bit signed integer, its arithmetic wraps.
I32Max == 2147483647
I32Min == (-I32Max) - 1

Names == 1..MaxNames
Callers == {"p1", "p2"}
Counts == (-MaxCount)..MaxCount

\* Semaphore::new
new(count) == [count |-> count, queue |-> {}]

\* AtomicI32::load
load(sem) == sem.count

NothingToAcquire_Strict(count) == count < 0

\* the test of wait(): `<= 0`, nothing to acquire
NothingToAcquire(count) == count <= 0

fetch_sub_Checked(sem) ==
    [sem EXCEPT !.count = IF sem.count <= 0 THEN sem.count ELSE sem.count - 1]

\* AtomicI32::fetch_sub(1): wrapping
fetch_sub(sem) ==
    [sem EXCEPT !.count = IF sem.count = I32Min THEN I32Max ELSE sem.count - 1]

fetch_add_Binary(sem) ==
    [sem EXCEPT !.count = IF sem.count >= 1 THEN sem.count ELSE sem.count + 1]

\* AtomicI32::fetch_add(1): wrapping
fetch_add(sem) ==
    [sem EXCEPT !.count = IF sem.count = I32Max THEN I32Min ELSE sem.count + 1]

\* BTreeSet::insert: the set afterwards, and whether the value was newly
\* inserted (true) or already there (false).
insert(queue, name) == [set |-> queue \cup {name}, inserted |-> name \notin queue]

remove_Clear(queue, name) ==
    [set |-> IF name \in queue THEN {} ELSE queue, present |-> name \in queue]

\* BTreeSet::remove: the set afterwards, and whether the value was there.
remove(queue, name) == [set |-> queue \ {name}, present |-> name \in queue]

\* assert_eq!(inserted, false, "Wait queue already has element"): passes
\* when the two are equal, panics otherwise.
AssertEqFalse(inserted) == inserted = FALSE

SignalOutcomes_Old(old) == {[outcome |-> "ret", ret |-> old >= 0]}

\* `old + 1 >= 0` of signal(): old + 1 overflows when old is i32::MAX, which
\* panics in a build with overflow checks and wraps to i32::MIN without.
SignalOutcomes(old) ==
    IF old = I32Max
    THEN {[outcome |-> "panic", ret |-> FALSE], [outcome |-> "ret", ret |-> I32Min >= 0]}
    ELSE {[outcome |-> "ret", ret |-> old + 1 >= 0]}

NoCall == [op |-> "none", sem |-> 1, arg |-> {}, outcome |-> "none", ret |-> FALSE,
           pre |-> new(0)]
Completed(op, s, arg, outcome, ret, pre) ==
    [op |-> op, sem |-> s, arg |-> arg, outcome |-> outcome, ret |-> ret, pre |-> pre]

\* The registry after the semaphores `ids` were created with Semaphore::new.
SemInit(ids) ==
    /\ SEMAPHORE_STORE \in {[s \in ids |-> new(c[s])] : c \in [ids -> Counts]}
    /\ pc = [p \in Callers |-> "idle"]
    /\ call = [p \in Callers |-> [sem |-> 1, pre |-> new(0)]]
    /\ last = NoCall
    /\ created = [s \in ids |-> SEMAPHORE_STORE[s].count]
    /\ decrements = [s \in ids |-> 0]
    /\ increments = [s \in ids |-> 0]

\* No semaphore in use (the specifications of the other components).
SemIdle ==
    /\ SEMAPHORE_STORE = <<>>
    /\ pc = [p \in Callers |-> "idle"]
    /\ call = [p \in Callers |-> [sem |-> 1, pre |-> new(0)]]
    /\ last = NoCall
    /\ created = <<>>
    /\ decrements = <<>>
    /\ increments = <<>>

\* What a panic does to the rest of the system is decided by the build: the
\* kernel build aborts (the panic handler never returns and nothing runs any
\* more), a hosted build unwinds the caller only and the global registry
\* stays usable by the other callers. Both are explored.
PanicHalts == BOOLEAN

\* Semaphore::wait, first step: self.count.load(Relaxed) <= 0
wait_load(p, s) ==
    /\ ~halted
    /\ pc[p] = "idle"
    /\ decrements[s] < MaxOps
    /\ LET sem == SEMAPHORE_STORE[s]
       IN  IF NothingToAcquire(load(sem))
           THEN /\ last' = Completed("wait", s, {}, "ret", FALSE, sem)
                /\ UNCHANGED <<pc, call>>
           ELSE /\ pc' = [pc EXCEPT ![p] = "fetch_sub"]
                /\ call' = [call EXCEPT ![p] = [sem |-> s, pre |-> sem]]
                /\ UNCHANGED last
    /\ UNCHANGED <<SEMAPHORE_STORE, histVars, halted, allocVars, sysVars, lateVars>>

\* Semaphore::wait, second step: self.count.fetch_sub(1, Relaxed); true
wait_fetch_sub(p) ==
    /\ ~halted
    /\ pc[p] = "fetch_sub"
    /\ LET s == call[p].sem
       IN  /\ SEMAPHORE_STORE' =
                  [SEMAPHORE_STORE EXCEPT ![s] = fetch_sub(SEMAPHORE_STORE[s])]
           /\ last' = Completed("wait", s, {}, "ret", TRUE, call[p].pre)
           /\ decrements' = [decrements EXCEPT ![s] = @ + 1]
    /\ pc' = [pc EXCEPT ![p] = "idle"]
    /\ UNCHANGED <<call, created, increments, halted, allocVars, sysVars, lateVars>>

\* Semaphore::add_to_wait_queue
add_to_wait_queue(p, s, name) ==
    /\ ~halted
    /\ pc[p] = "idle"
    /\ LET sem == SEMAPHORE_STORE[s]
           r == insert(sem.queue, name)
       IN  /\ SEMAPHORE_STORE' = [SEMAPHORE_STORE EXCEPT ![s].queue = r.set]
           /\ IF AssertEqFalse(r.inserted)
              THEN /\ last' = Completed("add_to_wait_queue", s, {name}, "ret", FALSE, sem)
                   /\ UNCHANGED halted
              ELSE /\ last' = Completed("add_to_wait_queue", s, {name}, "panic", FALSE, sem)
                   /\ halted' \in PanicHalts
    /\ UNCHANGED <<pc, call, histVars, allocVars, sysVars, lateVars>>

\* Semaphore::check_and_pop_if_exists
check_and_pop_if_exists(p, s, name) ==
    /\ ~halted
    /\ pc[p] = "idle"
    /\ LET sem == SEMAPHORE_STORE[s]
           r == remove(sem.queue, name)
       IN  /\ SEMAPHORE_STORE' = [SEMAPHORE_STORE EXCEPT ![s].queue = r.set]
           /\ last' = Completed("check_and_pop_if_exists", s, {name}, "ret", r.present, sem)
    /\ UNCHANGED <<pc, call, histVars, halted, allocVars, sysVars, lateVars>>

\* Semaphore::signal
signal(p, s) ==
    /\ ~halted
    /\ pc[p] = "idle"
    /\ SEMAPHORE_STORE[s].count < MaxCount
    /\ increments[s] < MaxOps
    /\ LET sem == SEMAPHORE_STORE[s]
           old == load(sem)
       IN  /\ SEMAPHORE_STORE' = [SEMAPHORE_STORE EXCEPT ![s] = fetch_add(sem)]
           /\ \E o \in SignalOutcomes(old) :
                 /\ last' = Completed("signal", s, {}, o.outcome, o.ret, sem)
                 /\ IF o.outcome = "panic"
                    THEN halted' \in PanicHalts
                    ELSE UNCHANGED halted
           /\ increments' = [increments EXCEPT ![s] = @ + 1]
    /\ UNCHANGED <<pc, call, created, decrements, allocVars, sysVars, lateVars>>

(***************************************************************************)
(*                  SYSCALL DISPATCHER (interrupts/mod.rs)                 *)
(***************************************************************************)
\* Bounds of the explored dispatches.
MaxCallNum == 13    \* raw syscall numbers 0 .. MaxCallNum
MaxProcs == 2       \* processes 1 .. MaxProcs, besides the idle process 0
MaxStack == 3       \* stack pointers 1 .. MaxStack (canonical addresses)

\* enum SyscallCommand { Yield = 10, Terminate }
YieldNum == 10
TerminateNum == YieldNum + 1

CallNums == 0..MaxCallNum
Pids == 0..MaxProcs
StackPtrs == 1..MaxStack

TryFrom_Shifted(call_num) ==
    IF call_num = YieldNum + 1 THEN Some("Yield")
    ELSE IF call_num = TerminateNum + 1 THEN Some("Terminate")
    ELSE None

TryFrom_Lenient(call_num) ==
    IF call_num = TerminateNum THEN Some("Terminate") ELSE Some("Yield")

\* SyscallCommand::try_from(call_num as u64): Ok(command) or Err.
TryFrom(call_num) ==
    IF call_num = YieldNum THEN Some("Yield")
    ELSE IF call_num = TerminateNum THEN Some("Terminate")
    ELSE None

\* VirtAddr::new(stack_p as u64) and .as_u64() as usize: a wrapper around a
\* canonical address; the stack pointers here are canonical.
VirtAddrNew(addr) == addr
AsU64(virt) == virt

\* The process manager: the running process, the live processes and the
\* stack pointer saved for each. `told` is the log of what it was asked.
\* The scheduler's choice `nxt` is left open. The idle process 0 is never
\* destroyed.
yield_current_process(pm, stack_p, nxt) ==
    LET saved == [pm.saved EXCEPT ![pm.current] = stack_p]
    IN  [pm |-> [pm EXCEPT !.saved = saved, !.current = nxt],
         ret |-> saved[nxt],
         told |-> [op |-> "yield_current_process", arg |-> Some(stack_p),
                   ret |-> saved[nxt]]]

end_current_process(pm, nxt) ==
    [pm |-> [pm EXCEPT !.alive = pm.alive \ ({pm.current} \ {0}), !.current = nxt],
     ret |-> pm.saved[nxt],
     told |-> [op |-> "end_current_process", arg |-> None, ret |-> pm.saved[nxt]]]

\* The processes the scheduler may pick after a yield / after a terminate.
ReadyAfterYield(pm) == pm.alive
ReadyAfterEnd(pm) == pm.alive \ ({pm.current} \ {0})

NoSyscall == [call_num |-> 0, stack_p |-> 1, outcome |-> "none", ret |-> None,
              told |-> <<>>, locks |-> 0]

SysInit ==
    /\ PROCESS_MANAGER \in
           [current : Pids, alive : {Pids}, saved : [Pids -> StackPtrs]]
    /\ syscall = NoSyscall

\* No dispatch (the specifications of the other components).
SysIdle ==
    /\ PROCESS_MANAGER = [current |-> 0, alive |-> {0}, saved |-> [p \in Pids |-> 1]]
    /\ syscall = NoSyscall

\* The body of internal_syscall(stack_p, call_num). The dispatcher is entered
\* from the naked trampoline of the kernel build, where a panic stops the
\* kernel.
dispatch(stack_p, call_num) ==
    /\ ~halted
    /\ LET command == TryFrom(call_num)
           pm == PROCESS_MANAGER
       IN  IF ~IsSome(command)
           THEN \* .expect("Invalid Syscall Number")
                /\ syscall' = [call_num |-> call_num, stack_p |-> stack_p,
                               outcome |-> "panic", ret |-> None,
                               told |-> <<>>, locks |-> 0]
                /\ halted' = TRUE
                /\ UNCHANGED PROCESS_MANAGER
           ELSE IF Unwrap(command) = "Yield"
           THEN \E nxt \in ReadyAfterYield(pm) :
                   LET r == yield_current_process(pm, VirtAddrNew(stack_p), nxt)
                   IN  /\ PROCESS_MANAGER' = r.pm
                       /\ syscall' = [call_num |-> call_num, stack_p |-> stack_p,
                                      outcome |-> "ret", ret |-> Some(AsU64(r.ret)),
                                      told |-> <<r.told>>, locks |-> 1]
                       /\ UNCHANGED halted
           ELSE \E nxt \in ReadyAfterEnd(pm) :
                   LET r == end_current_process(pm, nxt)
                   IN  /\ PROCESS_MANAGER' = r.pm
                       /\ syscall' = [call_num |-> call_num, stack_p |-> stack_p,
                                      outcome |-> "ret", ret |-> Some(AsU64(r.ret)),
                                      told |-> <<r.told>>, locks |-> 1]
                       /\ UNCHANGED halted

\* internal_syscall(stack_p, call_num), called on its own
internal_syscall(stack_p, call_num) ==
    /\ dispatch(stack_p, call_num)
    /\ UNCHANGED <<allocVars, semVars, lateVars>>

(***************************************************************************)
(*          SYSCALL TRAMPOLINE (interrupts/mod.rs: syscall_handler)        *)
(***************************************************************************)
\* The general-purpose registers in the order interrupt_push!() pushes them;
\* interrupt_pop!() pops them in the reverse order.
PushOrder ==
    <<"rax", "rbx", "rcx", "rdx", "rsi", "rdi", "rbp", "r8", "r9", "r10",
      "r11", "r12", "r13", "r14", "r15">>
GeneralRegs == {PushOrder[i] : i \in 1..Len(PushOrder)}
RegNames == GeneralRegs \cup {"rsp", "rip", "rflags", "cs", "ss"}
RegIndex(r) == CHOOSE i \in 1..Len(PushOrder) : PushOrder[i] = r

\* The registers a called function may change (System V), besides rax.
CallerSaved == {"rcx", "rdx", "rsi", "rdi", "r8", "r9", "r10", "r11"}
Clobbers == {0, 77}

\* Bound of the explored preemptions.
MaxPreemptions == 3

WordSize == 8           \* bytes pushed by one push
KernelCs == 8           \* the code segment selector all code runs with
InterruptsOn == 514     \* RFLAGS of the caller: interrupts enabled
ScratchSlot == 28       \* gs:[28], the reserved field of the TSS
TssBase == 8192         \* where KernelGSBase points: the TSS
UserGsBase == 12288     \* GS.base of the code that executes `syscall`

\* Each process has a stack of StackBytes bytes below StackTop(p); a process
\* that is not running has its context saved at SavedRsp(p): the fifteen
\* registers and above them an interrupt frame.
StackBytes == 384
StackTop(p) == (p + 1) * StackBytes
SavedRsp(p) == StackTop(p) - StackBytes
UserStackPtrs(p) == {StackTop(p), StackTop(p) - 2 * WordSize}
UserRip(p) == 1000 + p

StackAddrs == {StackTop(p) - WordSize * k : p \in Pids, k \in 1..(StackBytes \div WordSize)}
MemAddrs == StackAddrs \cup {TssBase + ScratchSlot, UserGsBase + ScratchSlot}

\* The word at SavedRsp(p) + WordSize * i of a saved context.
SavedWord(p, i) ==
    IF i < Len(PushOrder) THEN 100 * (p + 1) + (Len(PushOrder) - i)
    ELSE CASE i = Len(PushOrder)     -> UserRip(p) + 10
           [] i = Len(PushOrder) + 1 -> KernelCs
           [] i = Len(PushOrder) + 2 -> InterruptsOn
           [] i = Len(PushOrder) + 3 -> StackTop(p)
           [] OTHER                  -> 0

InitMem ==
    [a \in MemAddrs |->
        IF \E p \in Pids, i \in 0..(Len(PushOrder) + 4) : a = SavedRsp(p) + WordSize * i
        THEN LET p == CHOOSE q \in Pids : SavedRsp(q) <= a /\ a < StackTop(q)
             IN  SavedWord(p, (a - SavedRsp(p)) \div WordSize)
        ELSE 0]

\* The registers of process p in the code that is about to execute `syscall`.
UserRegs(p, rax, rsp) ==
    [r \in RegNames |->
        CASE r = "rax"    -> rax
          [] r = "rsp"    -> rsp
          [] r = "rip"    -> UserRip(p)
          [] r = "rflags" -> InterruptsOn
          [] r = "cs"     -> KernelCs
          [] r = "ss"     -> 0
          [] OTHER        -> 20 * (p + 1) + RegIndex(r)]

\* One instruction of the handler.
Ins(op, dst, src, disp, imm) ==
    [op |-> op, dst |-> dst, src |-> src, disp |-> disp, imm |-> imm]

EntrySequence_PushFirst ==
    <<Ins("swapgs", "", "", 0, 0),
      Ins("push_imm", "", "", 0, 0),
      Ins("mov_gs_reg", "", "rsp", ScratchSlot, 0),
      Ins("push_gs", "", "", ScratchSlot, 0),
      Ins("mov_gs_imm", "", "", ScratchSlot, 0),
      Ins("push_reg", "", "r11", 0, 0),
      Ins("mov_reg", "r11", "cs", 0, 0),
      Ins("push_reg", "", "r11", 0, 0),
      Ins("push_reg", "", "rcx", 0, 0),
      Ins("swapgs", "", "", 0, 0)>>

\* The first assembly block of syscall_handler.
EntrySequence ==
    <<Ins("swapgs", "", "", 0, 0),                    \* swapgs
      Ins("mov_gs_reg", "", "rsp", ScratchSlot, 0),   \* mov gs:[28], rsp
      Ins("push_imm", "", "", 0, 0),                  \* push 0
      Ins("push_gs", "", "", ScratchSlot, 0),         \* push qword ptr gs:[28]
      Ins("mov_gs_imm", "", "", ScratchSlot, 0),      \* mov qword ptr gs:[28], 0
      Ins("push_reg", "", "r11", 0, 0),               \* push r11
      Ins("mov_reg", "r11", "cs", 0, 0),              \* mov r11, cs
      Ins("push_reg", "", "r11", 0, 0),               \* push r11
      Ins("push_reg", "", "rcx", 0, 0),               \* push rcx
      Ins("swapgs", "", "", 0, 0)>>                   \* swapgs

HandlerBody_PopFirst ==
    <<Ins("interrupt_push", "", "", 0, 0),
      Ins("interrupt_pop", "", "", 0, 0),
      Ins("mov_reg", "rdi", "rsp", 0, 0),
      Ins("mov_reg", "rsi", "rax", 0, 0),
      Ins("call", "", "", 0, 0),
      Ins("mov_reg", "rsp", "rax", 0, 0),
      Ins("iretq", "", "", 0, 0)>>

\* The rest of syscall_handler.
HandlerBody ==
    <<Ins("interrupt_push", "", "", 0, 0),            \* interrupt_push!()
      Ins("mov_reg", "rdi", "rsp", 0, 0),             \* mov %rsp, %rdi
      Ins("mov_reg", "rsi", "rax", 0, 0),             \* mov %rax, %rsi
      Ins("call", "", "", 0, 0),                      \* call internal_syscall
      Ins("mov_reg", "rsp", "rax", 0, 0),             \* mov %rax, %rsp
      Ins("interrupt_pop", "", "", 0, 0),             \* interrupt_pop!()
      Ins("iretq", "", "", 0, 0)>>                    \* iretq

Program == EntrySequence \o HandlerBody
EntryLen == Len(EntrySequence)

\* Where the entry sequence stashes the stack pointer in the scratch slot and
\* where it pushes it from there.
StashIdx == CHOOSE i \in 1..EntryLen : EntrySequence[i].op = "mov_gs_reg"
RepushIdx == CHOOSE i \in 1..EntryLen : EntrySequence[i].op = "push_gs"

NoWindow == [state |-> "none", started |-> {}, completed |-> {}]

\* No process anywhere near the handler (the specifications of the other
\* components).
TrampIdle ==
    /\ cpu = <<>>
    /\ running = 0
    /\ gs_base = UserGsBase
    /\ kernel_gs_base = TssBase
    /\ mem = <<>>
    /\ at_entry = <<>>
    /\ events = <<>>
    /\ window = <<>>
    /\ preemptions = 0

\* Every process in the code that may execute `syscall`, with the registers
\* `regs` gives it; KernelGSBase points to the TSS.
TrampInit(regs) ==
    /\ cpu = [p \in Pids |-> [ip |-> 0, regs |-> regs[p]]]
    /\ gs_base = UserGsBase
    /\ kernel_gs_base = TssBase
    /\ mem = InitMem
    /\ at_entry = [p \in Pids |-> None]
    /\ events = <<>>
    /\ window = [p \in Pids |-> NoWindow]
    /\ preemptions = 0

Regs == cpu[running].regs
Fetch == Program[cpu[running].ip]
Executing(op) ==
    /\ ~halted
    /\ cpu[running].ip \in 1..Len(Program)
    /\ Fetch.op = op

\* What other processes saw of the entry sequence of the running process
\* while they were preempted inside their own: its first instruction
\* (started) and its last (completed).
Seen(ip) ==
    [q \in Pids |->
        IF q # running /\ window[q].state = "out"
        THEN IF ip = 1
             THEN [window[q] EXCEPT !.started = @ \cup {running}]
             ELSE IF ip = EntryLen /\ running \in window[q].started
             THEN [window[q] EXCEPT !.completed = @ \cup {running}]
             ELSE window[q]
        ELSE window[q]]

\* The running process has executed its instruction and has registers regs2.
Retire(regs2) ==
    /\ cpu' = [cpu EXCEPT ![running] = [ip |-> cpu[running].ip + 1, regs |-> regs2]]
    /\ window' = Seen(cpu[running].ip)

Push(regs, value) == [regs EXCEPT !["rsp"] = @ - WordSize]
Event(ev, rsp) == [ev |-> ev, rsp |-> rsp]

\* The `syscall` instruction (syscall1, or any code): the return address
\* goes to rcx, the flags to r11, and the handler starts.
syscall_instruction ==
    /\ ~halted
    /\ cpu[running].ip = 0
    /\ at_entry[running] = None
    /\ LET regs2 == [Regs EXCEPT !["rcx"] = Regs["rip"], !["r11"] = Regs["rflags"]]
       IN  /\ cpu' = [cpu EXCEPT ![running] = [ip |-> 1, regs |-> regs2]]
           /\ at_entry' = [at_entry EXCEPT ![running] =
                  Some([regs |-> regs2, mem |-> mem, gs_base |-> gs_base,
                        kernel_gs_base |-> kernel_gs_base])]
    /\ UNCHANGED <<preemptions, running, gs_base, kernel_gs_base, mem, events, window>>
    /\ UNCHANGED <<allocVars, semVars, sysVars, halted, emptyVars, ptVars>>

\* swapgs: exchanges GS.base with KernelGSBase
swapgs ==
    /\ Executing("swapgs")
    /\ gs_base' = kernel_gs_base
    /\ kernel_gs_base' = gs_base
    /\ Retire(Regs)
    /\ UNCHANGED <<preemptions, running, mem, at_entry, events>>
    /\ UNCHANGED <<allocVars, semVars, sysVars, halted, emptyVars, ptVars>>

\* mov gs:[disp], reg
mov_gs_reg ==
    /\ Executing("mov_gs_reg")
    /\ mem' = [mem EXCEPT ![gs_base + Fetch.disp] = Regs[Fetch.src]]
    /\ Retire(Regs)
    /\ UNCHANGED <<preemptions, running, gs_base, kernel_gs_base, at_entry, events>>
    /\ UNCHANGED <<allocVars, semVars, sysVars, halted, emptyVars, ptVars>>

\* mov qword ptr gs:[disp], imm
mov_gs_imm ==
    /\ Executing("mov_gs_imm")
    /\ mem' = [mem EXCEPT ![gs_base + Fetch.disp] = Fetch.imm]
    /\ Retire(Regs)
    /\ UNCHANGED <<preemptions, running, gs_base, kernel_gs_base, at_entry, events>>
    /\ UNCHANGED <<allocVars, semVars, sysVars, halted, emptyVars, ptVars>>

\* push imm
push_imm ==
    /\ Executing("push_imm")
    /\ mem' = [mem EXCEPT ![Regs["rsp"] - WordSize] = Fetch.imm]
    /\ Retire(Push(Regs, Fetch.imm))
    /\ UNCHANGED <<preemptions, running, gs_base, kernel_gs_base, at_entry, events>>
    /\ UNCHANGED <<allocVars, semVars, sysVars, halted, emptyVars, ptVars>>

\* push qword ptr gs:[disp]
push_gs ==
    /\ Executing("push_gs")
    /\ LET value == mem[gs_base + Fetch.disp]
       IN  /\ mem' = [mem EXCEPT ![Regs["rsp"] - WordSize] = value]
           /\ Retire(Push(Regs, value))
    /\ UNCHANGED <<preemptions, running, gs_base, kernel_gs_base, at_entry, events>>
    /\ UNCHANGED <<allocVars, semVars, sysVars, halted, emptyVars, ptVars>>

\* push reg
push_reg ==
    /\ Executing("push_reg")
    /\ mem' = [mem EXCEPT ![Regs["rsp"] - WordSize] = Regs[Fetch.src]]
    /\ Retire(Push(Regs, Regs[Fetch.src]))
    /\ UNCHANGED <<preemptions, running, gs_base, kernel_gs_base, at_entry, events>>
    /\ UNCHANGED <<allocVars, semVars, sysVars, halted, emptyVars, ptVars>>

\* mov dst, src between registers; loading rsp installs a stack.
mov_reg ==
    /\ Executing("mov_reg")
    /\ Retire([Regs EXCEPT ![Fetch.dst] = Regs[Fetch.src]])
    /\ events' = IF Fetch.dst = "rsp"
                 THEN Append(events, Event("install", Regs[Fetch.src]))
                 ELSE events
    /\ UNCHANGED <<preemptions, running, gs_base, kernel_gs_base, mem, at_entry>>
    /\ UNCHANGED <<allocVars, semVars, sysVars, halted, emptyVars, ptVars>>

\* interrupt_push!(): pushes every general-purpose register, in PushOrder.
interrupt_push ==
    /\ Executing("interrupt_push")
    /\ LET n == Len(PushOrder)
           rsp2 == Regs["rsp"] - WordSize * n
       IN  /\ mem' = [a \in DOMAIN mem |->
                         IF rsp2 <= a /\ a < Regs["rsp"]
                         THEN Regs[PushOrder[(Regs["rsp"] - a) \div WordSize]]
                         ELSE mem[a]]
           /\ Retire([Regs EXCEPT !["rsp"] = rsp2])
           /\ events' = Append(events, Event("save", rsp2))
    /\ UNCHANGED <<preemptions, running, gs_base, kernel_gs_base, at_entry>>
    /\ UNCHANGED <<allocVars, semVars, sysVars, halted, emptyVars, ptVars>>

\* call internal_syscall: the arguments are rdi and rsi, the result is rax;
\* the registers a callee may change come back with any value. A panic of
\* the dispatcher stops everything at the call.
call_internal_syscall ==
    /\ Executing("call")
    /\ dispatch(Regs["rdi"], Regs["rsi"])
    /\ events' = Append(events, Event("dispatch", Regs["rsp"]))
    /\ IF syscall'.outcome = "ret"
       THEN \E c \in Clobbers :
               Retire([r \in RegNames |->
                          IF r = "rax" THEN Unwrap(syscall'.ret)
                          ELSE IF r \in CallerSaved THEN c
                          ELSE Regs[r]])
       ELSE UNCHANGED <<cpu, window>>
    /\ UNCHANGED <<preemptions, running, gs_base, kernel_gs_base, mem, at_entry>>
    /\ UNCHANGED <<allocVars, semVars, emptyVars, ptVars>>

\* interrupt_pop!(): pops every general-purpose register, in reverse order.
interrupt_pop ==
    /\ Executing("interrupt_pop")
    /\ LET n == Len(PushOrder)
           rsp == Regs["rsp"]
       IN  /\ Retire([r \in RegNames |->
                         IF r \in GeneralRegs
                         THEN mem[rsp + WordSize * (n - RegIndex(r))]
                         ELSE IF r = "rsp" THEN rsp + WordSize * n
                         ELSE Regs[r]])
           /\ events' = Append(events, Event("restore", rsp + WordSize * n))
    /\ UNCHANGED <<preemptions, running, gs_base, kernel_gs_base, mem, at_entry>>
    /\ UNCHANGED <<allocVars, semVars, sysVars, halted, emptyVars, ptVars>>

\* iretq: pops rip, cs, rflags, rsp and ss and continues there.
iretq ==
    /\ Executing("iretq")
    /\ LET rsp == Regs["rsp"]
           regs2 == [Regs EXCEPT !["rip"] = mem[rsp],
                                 !["cs"] = mem[rsp + WordSize],
                                 !["rflags"] = mem[rsp + 2 * WordSize],
                                 !["rsp"] = mem[rsp + 3 * WordSize],
                                 !["ss"] = mem[rsp + 4 * WordSize]]
       IN  cpu' = [cpu EXCEPT ![running] = [ip |-> 0, regs |-> regs2]]
    /\ events' = Append(events, Event("resume", Regs["rsp"]))
    /\ UNCHANGED <<preemptions, running, gs_base, kernel_gs_base, mem, at_entry, window>>
    /\ UNCHANGED <<allocVars, semVars, sysVars, halted, emptyVars, ptVars>>

\* A hardware interrupt preempts the running process and process q runs
\* next. The interrupt saves and restores the registers of a process; GS.base
\* and KernelGSBase are not among them. Interrupts are enabled throughout
\* the handler.
preempt(q) ==
    /\ ~halted
    /\ q # running
    /\ preemptions < MaxPreemptions
    /\ preemptions' = preemptions + 1
    /\ running' = q
    /\ window' =
          [p \in Pids |->
              IF p = running /\ cpu[p].ip > StashIdx /\ cpu[p].ip <= RepushIdx
              THEN [window[p] EXCEPT !.state = "out"]
              ELSE IF p = q /\ window[p].state = "out"
              THEN [window[p] EXCEPT !.state = "back"]
              ELSE window[p]]
    /\ UNCHANGED <<cpu, gs_base, kernel_gs_base, mem, at_entry, events>>
    /\ UNCHANGED <<allocVars, semVars, sysVars, halted, emptyVars, ptVars>>

(***************************************************************************)
(*                PAGE-TABLE WALK (memory/paging.rs)                       *)
(***************************************************************************)
\* Bound of the explored physical memory: the frames that hold page tables
\* (and that entries can name) start at 0, 4096, ...
MaxTableFrames == 2

TableFrames == {f * PageSize : f \in 0..(MaxTableFrames - 1)}

\* PageTableFlags of a page-table entry (bits 0 and 7 of the 64-bit entry).
PRESENT == 1
HUGE_PAGE == 128

\* PageTableFlags::contains
contains(entry, flag) == (entry \div flag) % 2 = 1

\* PageTableEntry::addr: the entry without its flag bits (bits 12 and up).
EntryAddr(entry) == entry - (entry % PageSize)

\* The entries explored: empty, absent with the huge-page bit set, a present
\* huge page, and a present link to each frame.
Entries ==
    {0, HUGE_PAGE, PRESENT + HUGE_PAGE} \cup {f + PRESENT : f \in TableFrames}

\* The indexes of a table that hold explored entries; every other entry of
\* the 512 is empty.
Indexes == {0, 511}
PageTables == [Indexes -> Entries]

\* &table[index]
TableEntry(table, index) == IF index \in DOMAIN table THEN table[index] ELSE 0

\* A 48-bit virtual address, held as two limbs: hi is bits 30..47,
\* lo is bits 0..29 (the address is hi * 2^30 + lo).
VirtAddr(hi, lo) == [hi |-> hi, lo |-> lo]

\* VirtAddr::p4_index, p3_index, p2_index, p1_index, page_offset
p4_index(addr) == (addr.hi \div 512) % 512
p3_index(addr) == addr.hi % 512
p2_index(addr) == (addr.lo \div 2097152) % 512
p1_index(addr) == (addr.lo \div PageSize) % 512
page_offset(addr) == addr.lo % PageSize

\* The virtual addresses translated: each index one of Indexes, the page
\* offset 0 or 4095.
VirtAddrs ==
    {VirtAddr(i4 * 512 + i3, i2 * 2097152 + i1 * PageSize + off) :
         i4 \in Indexes, i3 \in Indexes, i2 \in Indexes, i1 \in Indexes,
         off \in {0, 4095}}

\* The offset at which the bootloader maps all of physical memory.
DirectMapOffset == 1048576

\* *table_ptr: the table read through the direct map at a virtual address.
Deref(phys, virt) == phys[virt - DirectMapOffset]

EntryFrame_HugeFirst(entry) ==
    IF contains(entry, HUGE_PAGE) THEN [err |-> "HugeFrame"]
    ELSE IF ~contains(entry, PRESENT) THEN [err |-> "FrameNotPresent"]
    ELSE [err |-> "Ok", frame |-> EntryAddr(entry)]

\* PageTableEntry::frame
EntryFrame(entry) ==
    IF ~contains(entry, PRESENT) THEN [err |-> "FrameNotPresent"]
    ELSE IF contains(entry, HUGE_PAGE) THEN [err |-> "HugeFrame"]
    ELSE [err |-> "Ok", frame |-> EntryAddr(entry)]

table_indexes_Reversed(addr) ==
    <<p1_index(addr), p2_index(addr), p3_index(addr), p4_index(addr)>>

\* let table_indexes = [addr.p4_index(), .. addr.p1_index()]
table_indexes(addr) ==
    <<p4_index(addr), p3_index(addr), p2_index(addr), p1_index(addr)>>

\* The loop of _translate_addr over the remaining indexes, from `frame`.
RECURSIVE Traverse(_, _, _, _)
Traverse(phys, physical_memory_offset, frame, indexes) ==
    IF indexes = <<>>
    THEN [outcome |-> "walked", frame |-> frame]
    ELSE LET virt == physical_memory_offset + frame
             table == Deref(phys, virt)
             entry == TableEntry(table, Head(indexes))
             r == EntryFrame(entry)
         IN  IF r.err = "Ok"
             THEN Traverse(phys, physical_memory_offset, r.frame, Tail(indexes))
             ELSE IF r.err = "FrameNotPresent"
             THEN [outcome |-> "none", frame |-> frame]
             ELSE [outcome |-> "panic", frame |-> frame]

NoTranslation == [addr |-> VirtAddr(0, 0), outcome |-> "none", ret |-> None]

\* The page tables the walk finds: any tables in the table frames, the
\* active level-4 table in the first of them.
PtInit ==
    /\ cr3 = 0
    /\ page_tables \in [TableFrames -> PageTables]
    /\ translated = NoTranslation

\* No page table in use (the specifications of the other components).
PtIdle ==
    /\ cr3 = 0
    /\ page_tables = <<>>
    /\ translated = NoTranslation

\* _translate_addr. It changes nothing it reads, so one call per behaviour
\* explores every call.
_translate_addr(addr, physical_memory_offset) ==
    /\ ~halted
    /\ translated = NoTranslation
    /\ LET level_4_table_frame == cr3
           w == Traverse(page_tables, physical_memory_offset,
                         level_4_table_frame, table_indexes(addr))
       IN  \/ /\ w.outcome = "walked"
              /\ translated' = [addr |-> addr, outcome |-> "ret",
                                ret |-> Some(w.frame + page_offset(addr))]
              /\ UNCHANGED halted
           \/ /\ w.outcome = "none"
              /\ translated' = [addr |-> addr, outcome |-> "ret", ret |-> None]
              /\ UNCHANGED halted
           \/ /\ w.outcome = "panic"
              /\ translated' = [addr |-> addr, outcome |-> "panic", ret |-> None]
              /\ halted' = TRUE
    /\ UNCHANGED <<cr3, page_tables, allocVars, semVars, sysVars, emptyVars, trampVars>>

(***************************************************************************)
(*                            Specifications                               *)
(***************************************************************************)
\* The components a specification does not use stay as they start.
LateIdle ==
    /\ EmptyInit
    /\ PtIdle
    /\ TrampIdle

\* One frame allocator and its callers.
AllocInit ==
    /\ LateIdle
    /\ BootInfoFrameAllocatorInit
    /\ SemIdle
    /\ SysIdle
    /\ halted = FALSE

NextAlloc == allocate_frame

SpecAlloc == AllocInit /\ [][NextAlloc]_vars

\* Translations of any address over any page tables.
PtSpecInit ==
    /\ EmptyInit
    /\ TrampIdle
    /\ PtInit
    /\ AllocIdle
    /\ SemIdle
    /\ SysIdle
    /\ halted = FALSE

NextTranslate ==
    \E addr \in VirtAddrs, physical_memory_offset \in {DirectMapOffset} :
        _translate_addr(addr, physical_memory_offset)

SpecTranslate == PtSpecInit /\ [][NextTranslate]_vars

\* One syscall of the running process, without preemption: any raw syscall
\* number, either stack pointer, any process manager.
TrampSpecInit ==
    /\ EmptyInit
    /\ PtIdle
    /\ AllocIdle
    /\ SemIdle
    /\ halted = FALSE
    /\ syscall = NoSyscall
    /\ PROCESS_MANAGER \in
           [current : Pids, alive : {Pids}, saved : {[p \in Pids |-> SavedRsp(p)]}]
    /\ running = PROCESS_MANAGER.current
    /\ \E rax \in CallNums, rsp \in UserStackPtrs(running) :
           TrampInit([p \in Pids |->
                         IF p = running THEN UserRegs(p, rax, rsp)
                         ELSE UserRegs(p, YieldNum, StackTop(p))])

NextTramp ==
    \/ syscall_instruction
    \/ swapgs
    \/ mov_gs_reg
    \/ push_imm
    \/ push_gs
    \/ mov_gs_imm
    \/ push_reg
    \/ mov_reg
    \/ interrupt_push
    \/ call_internal_syscall
    \/ interrupt_pop
    \/ iretq

SpecTramp == TrampSpecInit /\ [][NextTramp]_vars

\* The entry sequence of every process, each making one syscall, preempted
\* at any instruction.
PreemptSpecInit ==
    /\ EmptyInit
    /\ PtIdle
    /\ AllocIdle
    /\ SemIdle
    /\ SysIdle
    /\ halted = FALSE
    /\ running \in Pids
    /\ TrampInit([p \in Pids |-> UserRegs(p, YieldNum, StackTop(p))])

NextPreempt ==
    \/ syscall_instruction
    \/ swapgs
    \/ mov_gs_reg
    \/ push_imm
    \/ push_gs
    \/ mov_gs_imm
    \/ push_reg
    \/ mov_reg
    \/ \E q \in Pids : preempt(q)

SpecPreempt == PreemptSpecInit /\ [][NextPreempt]_vars

\* The two frame allocators, called in any order.
NextExhaust ==
    \/ allocate_frame
    \/ empty_allocate_frame

SpecExhaust == AllocInit /\ [][NextExhaust]_vars

\* One semaphore of the registry, used by one caller at a time.
SemSeqInit ==
    /\ LateIdle
    /\ SemInit({1})
    /\ AllocIdle
    /\ SysIdle
    /\ halted = FALSE

NextSem ==
    \/ \E s \in DOMAIN SEMAPHORE_STORE : wait_load("p1", s)
    \/ wait_fetch_sub("p1")
    \/ \E s \in DOMAIN SEMAPHORE_STORE : signal("p1", s)
    \/ \E s \in DOMAIN SEMAPHORE_STORE, name \in Names :
           add_to_wait_queue("p1", s, name)
    \/ \E s \in DOMAIN SEMAPHORE_STORE, name \in Names :
           check_and_pop_if_exists("p1", s, name)

SpecSem == SemSeqInit /\ [][NextSem]_vars

\* The registry with two semaphores, used by one caller at a time.
SemRegistryInit ==
    /\ LateIdle
    /\ SemInit({1, 2})
    /\ AllocIdle
    /\ SysIdle
    /\ halted = FALSE

\* The queue operations, on any semaphore of the registry.
NextSemRegistry ==
    \/ \E s \in DOMAIN SEMAPHORE_STORE, name \in Names :
           add_to_wait_queue("p1", s, name)
    \/ \E s \in DOMAIN SEMAPHORE_STORE, name \in Names :
           check_and_pop_if_exists("p1", s, name)

SpecSemRegistry == SemRegistryInit /\ [][NextSemRegistry]_vars

\* One semaphore, its wait() and signal() called by both callers at once:
\* the steps of the two callers interleave in any order.
SemConcInit ==
    /\ LateIdle
    /\ SemInit({1})
    /\ AllocIdle
    /\ SysIdle
    /\ halted = FALSE

NextSemConc ==
    \/ \E p \in Callers, s \in DOMAIN SEMAPHORE_STORE : wait_load(p, s)
    \/ \E p \in Callers : wait_fetch_sub(p)
    \/ \E p \in Callers, s \in DOMAIN SEMAPHORE_STORE : signal(p, s)

SpecSemConc == SemConcInit /\ [][NextSemConc]_vars

\* The dispatcher, called with any stack pointer and raw syscall number.
SysSpecInit ==
    /\ LateIdle
    /\ SysInit
    /\ AllocIdle
    /\ SemIdle
    /\ halted = FALSE

NextSys == \E stack_p \in StackPtrs, call_num \in CallNums : internal_syscall(stack_p, call_num)

SpecSys == SysSpecInit /\ [][NextSys]_vars

(***************************************************************************)
(*                      Claims about the dispatcher                        *)
(***************************************************************************)
\* C1: a dispatch of syscall number 10 asks the process manager to yield the
\* current process with the given stack pointer, a dispatch of number 11
\* asks it to end the current process; either way the process manager is
\* asked exactly once and the dispatcher returns the stack pointer it
\* reported, that of the process now running.
C1_ValidDispatch ==
    (syscall.outcome # "none" /\ syscall.call_num \in {10, 11}) =>
        /\ syscall.outcome = "ret"
        /\ IsSome(syscall.ret)
        /\ Len(syscall.told) = 1
        /\ syscall.locks = 1
        /\ Unwrap(syscall.ret) = syscall.told[1].ret
        /\ Unwrap(syscall.ret) = PROCESS_MANAGER.saved[PROCESS_MANAGER.current]
        /\ syscall.call_num = 10 =>
               /\ syscall.told[1].op = "yield_current_process"
               /\ syscall.told[1].arg = Some(syscall.stack_p)
        /\ syscall.call_num = 11 =>
               /\ syscall.told[1].op = "end_current_process"
               /\ syscall.told[1].arg = None

C1_Witness ==
    /\ syscall.outcome = "ret"
    /\ syscall.call_num = 10
    /\ syscall.stack_p = 3
    /\ syscall.ret = Some(2)
    /\ Len(syscall.told) = 1

\* C2: a dispatch of any syscall number other than 10 and 11 panics: it
\* returns nothing, the process manager is neither locked nor asked
\* anything, and its state is as before.
C2_InvalidPanics ==
    /\ []((syscall.outcome # "none" /\ syscall.call_num \notin {10, 11}) =>
              /\ syscall.outcome = "panic"
              /\ syscall.ret = None
              /\ syscall.told = <<>>
              /\ syscall.locks = 0)
    /\ [][(syscall' # syscall /\ syscall'.call_num \notin {10, 11}) =>
              /\ syscall'.outcome = "panic"
              /\ PROCESS_MANAGER' = PROCESS_MANAGER]_vars

C2_Witness ==
    /\ syscall.outcome = "panic"
    /\ syscall.call_num = 12
    /\ halted

(***************************************************************************)
(*                    Claims about the frame allocator                     *)
(***************************************************************************)
\* The successful results among the first n calls, in order.
RECURSIVE Frames(_)
Frames(rs) ==
    IF rs = <<>> THEN <<>>
    ELSE IF IsSome(Head(rs)) THEN <<Unwrap(Head(rs))>> \o Frames(Tail(rs))
         ELSE Frames(Tail(rs))

\* The map of the spec's example: usable 0..4096, reserved 4096..8192,
\* usable 8192..16384.
ExampleMap ==
    << [start_addr |-> 0, end_addr |-> PageSize, region_type |-> "Usable"],
       [start_addr |-> PageSize, end_addr |-> 2 * PageSize, region_type |-> "Reserved"],
       [start_addr |-> 2 * PageSize, end_addr |-> 4 * PageSize, region_type |-> "Usable"] >>

\* C3 as stated: on the example map the first call yields frame 0, the
\* second frame 8192, and the third reports exhaustion.
C3_ExhaustedAtThird ==
    memory_map = ExampleMap =>
        /\ Len(returned) >= 1 => returned[1] = Some(0)
        /\ Len(returned) >= 2 => returned[2] = Some(2 * PageSize)
        /\ Len(returned) >= 3 => returned[3] = None

\* C3 (amended): on the example map the calls yield frame 0, frame 8192,
\* frame 12288 (the region 8192..16384 holds two frames), and the fourth
\* call reports exhaustion.
C3_ExampleMap ==
    memory_map = ExampleMap =>
        /\ Len(returned) >= 1 => returned[1] = Some(0)
        /\ Len(returned) >= 2 => returned[2] = Some(2 * PageSize)
        /\ Len(returned) >= 3 => returned[3] = Some(3 * PageSize)
        /\ Len(returned) >= 4 => returned[4] = None

C3_Witness ==
    /\ memory_map = ExampleMap
    /\ Len(returned) = 4
    /\ returned[4] = None

\* The reference sequence, by position: address a is the k-th frame (0-based)
\* when it is a stride point of a usable region i and exactly k stride points
\* of usable regions precede it in map order.
StridePoints(r) ==
    {a \in {r.start_addr + k * PageSize : k \in 0..MaxFrames} : a < r.end_addr}

\* Every (region index, stride point) pair of the usable regions of the map.
UsablePoints(map) ==
    UNION {{<<j, b>> : b \in StridePoints(map[j])} :
              j \in {j \in 1..Len(map) : IsUsable(map[j])}}

Rank(map, i, a) ==
    Cardinality({p \in UsablePoints(map) :
        p[1] < i \/ (p[1] = i /\ p[2] < a)})

RefCount(map) == Cardinality(UsablePoints(map))

IsRefFrame(map, k, a) ==
    \E i \in 1..Len(map) :
        /\ IsUsable(map[i])
        /\ a \in StridePoints(map[i])
        /\ Rank(map, i, a) = k

InReserved(map, a) ==
    \E i \in 1..Len(map) :
        /\ ~IsUsable(map[i])
        /\ map[i].start_addr <= a
        /\ a < map[i].end_addr

\* C4: the (k+1)-th call returns the k-th frame of the reference sequence,
\* exhaustion from the length of that sequence on; no returned frame lies in
\* a reserved region.
C4_ReferenceSequence ==
    \A k \in 0..(Len(returned) - 1) :
        IF k < RefCount(memory_map)
        THEN /\ IsSome(returned[k + 1])
             /\ IsRefFrame(memory_map, k, Unwrap(returned[k + 1]))
             /\ ~InReserved(memory_map, Unwrap(returned[k + 1]))
        ELSE returned[k + 1] = None

C4_Witness ==
    /\ Len(memory_map) = 3
    /\ IsUsable(memory_map[1]) /\ ~IsUsable(memory_map[2]) /\ IsUsable(memory_map[3])
    /\ memory_map[3].end_addr <= memory_map[1].start_addr
    /\ RefCount(memory_map) = 3
    /\ Len(returned) = 5
    /\ IsSome(returned[3]) /\ returned[4] = None

C6_AscendingAnyOrder ==
    LET fs == Frames(returned)
    IN  \A n \in 2..Len(fs) : fs[n] > fs[n - 1]

\* The regions of the map are listed in ascending address order.
SortedMap(map) ==
    \A i, j \in 1..Len(map) : i < j => map[i].start_addr <= map[j].start_addr

\* C6 (amended): when the regions of the memory map are listed in ascending
\* address order, each successful call returns an address strictly greater
\* than the previous successful call.
C6_AscendingWhenSorted ==
    SortedMap(memory_map) =>
        LET fs == Frames(returned)
        IN  \A n \in 2..Len(fs) : fs[n] > fs[n - 1]

C6_Witness ==
    /\ SortedMap(memory_map)
    /\ Len(SelectSeq(memory_map, IsUsable)) >= 2
    /\ Len(Frames(returned)) >= 3
    /\ Frames(returned)[3] > Frames(returned)[2] + PageSize

\* C7 as stated: the cursor is the number of frames handed out, in every
\* state (so a call that reports exhaustion does not advance it).
C7_CursorCountsFrames == next = Len(Frames(returned))

\* C7 (amended): the cursor starts at 0 and is advanced by exactly one on
\* every allocate_frame call, successful or not: it is the number of calls
\* made, which is the number of frames handed out as long as no call has
\* reported exhaustion; the memory map is never changed.
C7_CursorCountsCalls ==
    /\ [](/\ next = Len(returned)
          /\ (\A i \in 1..Len(returned) : IsSome(returned[i]))
                 => next = Len(Frames(returned)))
    /\ [][next' = next + 1 /\ memory_map' = memory_map]_allocVars

C7_Witness ==
    /\ Len(Frames(returned)) = 2
    /\ Len(returned) = 4
    /\ next = 4

\* C19: once an allocate_frame call of a BootInfoFrameAllocator has reported
\* exhaustion, every later call reports exhaustion too; the
\* EmptyFrameAllocator reports exhaustion on every call.
C19_ExhaustionIsPermanent ==
    /\ \A i, j \in 1..Len(returned) :
           (i < j /\ returned[i] = None) => returned[j] = None
    /\ \A i \in 1..Len(empty_returned) : empty_returned[i] = None

C19_Witness ==
    /\ Len(Frames(returned)) = 2
    /\ Len(returned) = 5
    /\ returned[3] = None /\ returned[5] = None
    /\ Len(empty_returned) = 2

(***************************************************************************)
(*                      Claims about the semaphore                         *)
(***************************************************************************)
\* C8: with one caller, wait() on a count > 0 returns true and leaves the
\* count one lower; on a count <= 0 it returns false and leaves the count
\* as it was; either way the wait queue is as before, and a wait() that has
\* read the count can always finish (it never blocks).
C8_Wait ==
    /\ last.op = "wait" =>
          LET sem == SEMAPHORE_STORE[last.sem]
          IN  /\ last.outcome = "ret"
              /\ sem.queue = last.pre.queue
              /\ last.pre.count > 0 =>
                     (last.ret = TRUE /\ sem.count = last.pre.count - 1)
              /\ last.pre.count <= 0 =>
                     (last.ret = FALSE /\ sem.count = last.pre.count)
    /\ pc["p1"] = "fetch_sub" => ENABLED wait_fetch_sub("p1")

C8_Witness ==
    /\ last.op = "wait"
    /\ last.pre = new(1)
    /\ last.ret = TRUE
    /\ SEMAPHORE_STORE[last.sem].count = 0

\* C9: signal() leaves the count one higher and the wait queue as before,
\* and returns true exactly when the count after the increment is >= 0.
C9_Signal ==
    last.op = "signal" =>
        LET sem == SEMAPHORE_STORE[last.sem]
        IN  /\ last.outcome = "ret"
            /\ sem.count = last.pre.count + 1
            /\ sem.queue = last.pre.queue
            /\ last.ret <=> (sem.count >= 0)
            /\ last.pre.count = 0 => (sem.count = 1 /\ last.ret = TRUE)
            /\ last.pre.count = -2 => (sem.count = -1 /\ last.ret = FALSE)

C9_Witness ==
    /\ last.op = "signal"
    /\ last.pre.count = -2
    /\ last.ret = FALSE
    /\ SEMAPHORE_STORE[last.sem].count = -1

\* C10: add_to_wait_queue(id) called when id is already in the wait queue
\* panics instead of returning.
C10_DuplicatePanics ==
    (/\ last.op = "add_to_wait_queue"
     /\ last.arg \subseteq last.pre.queue)
        => last.outcome = "panic"

\* C11: add_to_wait_queue(id) called when id is not in the wait queue
\* returns normally and leaves id in the queue (so that a following
\* check_and_pop_if_exists(id) finds it and restores the queue).
C11_FreshAddReturns ==
    (/\ last.op = "add_to_wait_queue"
     /\ last.arg \cap last.pre.queue = {})
        => /\ last.outcome = "ret"
           /\ last.arg \subseteq SEMAPHORE_STORE[last.sem].queue
           /\ remove(SEMAPHORE_STORE[last.sem].queue, CHOOSE n \in last.arg : TRUE)
                  = [set |-> last.pre.queue, present |-> TRUE]

\* C12: check_and_pop_if_exists(id) returns false and leaves the wait queue
\* and the count as they were when id is not in the queue (an empty queue
\* stays empty); when id is in the queue it returns true and removes id and
\* nothing else.
C12_CheckAndPop ==
    last.op = "check_and_pop_if_exists" =>
        LET sem == SEMAPHORE_STORE[last.sem]
        IN  /\ last.outcome = "ret"
            /\ sem.count = last.pre.count
            /\ last.arg \cap last.pre.queue = {} =>
                   (last.ret = FALSE /\ sem.queue = last.pre.queue)
            /\ last.arg \subseteq last.pre.queue =>
                   (last.ret = TRUE /\ sem.queue = last.pre.queue \ last.arg)

C12_Witness ==
    /\ last.op = "check_and_pop_if_exists"
    /\ last.pre.queue = {1, 2}
    /\ last.arg = {1}
    /\ last.ret = TRUE
    /\ SEMAPHORE_STORE[last.sem].queue = {2}

C17_DecrementUnchecked ==
    [][\A p \in Callers :
          (pc[p] = "fetch_sub" /\ pc'[p] = "idle") =>
              LET s == call[p].sem
              IN  /\ SEMAPHORE_STORE'[s].count = SEMAPHORE_STORE[s].count - 1
                  /\ last' = Completed("wait", s, {}, "ret", TRUE, call[p].pre)]_vars

C17_Witness ==
    /\ created[1] = 1
    /\ increments[1] = 0
    /\ decrements[1] = 2
    /\ last.op = "wait" /\ last.ret = TRUE /\ last.pre.count = 1
    /\ SEMAPHORE_STORE[1].count = -1
    /\ \A p \in Callers : pc[p] = "idle"

\* C18: under every interleaving of wait() and signal() the count is the
\* count given to new, minus the decrements of wait() done, plus the
\* increments of signal() done; a wait() that returns false changes nothing.
C18_CountBalance ==
    /\ [](\A s \in DOMAIN SEMAPHORE_STORE :
             SEMAPHORE_STORE[s].count = created[s] - decrements[s] + increments[s])
    /\ [][(last' # last /\ last'.op = "wait" /\ last'.ret = FALSE) =>
             /\ SEMAPHORE_STORE' = SEMAPHORE_STORE
             /\ UNCHANGED <<pc, call, histVars>>]_vars

C18_Witness ==
    /\ created[1] = 1
    /\ decrements[1] = 2
    /\ increments[1] = 1
    /\ SEMAPHORE_STORE[1].count = 0
    /\ last.op = "wait" /\ last.ret = FALSE

(***************************************************************************)
(*                    Claims about the page-table walk                     *)
(***************************************************************************)
\* The entries the hardware format names for an address, level 4 first:
\* the level-4 entry in the active table, then at each level the entry of
\* the table whose frame the entry above names.
PathEntries(addr) ==
    LET e4 == TableEntry(page_tables[cr3], p4_index(addr))
        e3 == TableEntry(page_tables[EntryAddr(e4)], p3_index(addr))
        e2 == TableEntry(page_tables[EntryAddr(e3)], p2_index(addr))
        e1 == TableEntry(page_tables[EntryAddr(e2)], p1_index(addr))
    IN  <<e4, e3, e2, e1>>

IsPresent(entry) == entry % 2 = 1
IsHuge(entry) == (entry % 256) >= 128

\* C14: _translate_addr walks the levels 4, 3, 2, 1: it returns None at the
\* first level whose entry is not present, panics at a present entry
\* flagged huge, and otherwise returns the start address of the frame named
\* by the level-1 entry plus the page offset of the address.
C14_Translate ==
    (translated # NoTranslation) =>
        LET addr == translated.addr
            es == PathEntries(addr)
            \* the positions whose entry stops the walk, and the first one
            Stops == {k \in 1..4 : ~IsPresent(es[k]) \/ IsHuge(es[k])}
            first == CHOOSE k \in Stops : \A j \in Stops : k <= j
        IN  IF Stops = {}
            THEN /\ translated.outcome = "ret"
                 /\ translated.ret = Some(EntryAddr(es[4]) + (addr.lo % 4096))
                 /\ ~halted
            ELSE IF ~IsPresent(es[first])
            THEN /\ translated.outcome = "ret"
                 /\ translated.ret = None
                 /\ ~halted
            ELSE /\ translated.outcome = "panic"
                 /\ halted

\* a mapped address whose four indexes are not all equal, through both
\* tables, with a page offset
C14_Witness ==
    /\ translated.outcome = "ret"
    /\ translated.ret = Some(4096 + 4095)
    /\ p4_index(translated.addr) = 511
    /\ p1_index(translated.addr) = 0
    /\ page_tables[0][511] = 4096 + PRESENT
    /\ page_tables[4096][0] = 4096 + PRESENT

(***************************************************************************)
(*                  Claims about the syscall trampoline                    *)
(***************************************************************************)
\* The five steps of one syscall, in order.
HandlerSteps == <<"save", "dispatch", "install", "restore", "resume">>

\* The word at slot i above a stack pointer (slot 0 is the word at rsp).
StackWord(rsp, i) == mem[rsp + WordSize * i]

\* The register r as interrupt_push!() left it on the stack with pointer rsp.
SavedReg(rsp, r) == StackWord(rsp, Len(PushOrder) - RegIndex(r))

\* C15: within one syscall the steps happen in this order: the registers are
\* saved; the dispatcher is called with the stack pointer after the save
\* and the raw syscall number; its return value becomes the stack pointer;
\* the registers are restored from that stack; iretq resumes. No restore
\* comes before the dispatch and no dispatch before the save.
C15_HandlerOrder ==
    LET n == Len(events)
        entry == Unwrap(at_entry[running])
    IN  /\ n <= Len(HandlerSteps)
        /\ \A i \in 1..n : events[i].ev = HandlerSteps[i]
        /\ n < 2 => syscall = NoSyscall
        /\ n >= 1 =>
               \* the save: every register, as it is when the entry sequence ends
               /\ events[1].rsp = entry.regs["rsp"] - WordSize * (5 + Len(PushOrder))
               /\ \A r \in GeneralRegs \ {"r11"} :
                      SavedReg(events[1].rsp, r) = entry.regs[r]
               /\ SavedReg(events[1].rsp, "r11") = entry.regs["cs"]
        /\ n >= 2 =>
               /\ syscall.stack_p = events[1].rsp
               /\ syscall.call_num = entry.regs["rax"]
               /\ events[2].rsp = events[1].rsp
        /\ n = 2 => (halted <=> syscall.outcome = "panic")
        /\ n >= 3 =>
               /\ syscall.outcome = "ret"
               /\ events[3].rsp = Unwrap(syscall.ret)
        /\ n = 3 => Regs["rsp"] = Unwrap(syscall.ret)
        /\ n >= 4 =>
               /\ events[4].rsp = events[3].rsp + WordSize * Len(PushOrder)
               /\ \A r \in GeneralRegs : Regs[r] = SavedReg(events[3].rsp, r)
        /\ n = 4 => Regs["rsp"] = events[4].rsp
        /\ n = 5 =>
               /\ events[5].rsp = events[4].rsp
               /\ cpu[running].ip = 0
               /\ Regs["rip"] = StackWord(events[5].rsp, 0)
               /\ Regs["cs"] = StackWord(events[5].rsp, 1)
               /\ Regs["rflags"] = StackWord(events[5].rsp, 2)
               /\ Regs["rsp"] = StackWord(events[5].rsp, 3)
               /\ Regs["ss"] = StackWord(events[5].rsp, 4)

\* a Yield that came back with the stack of another process and resumed it
C15_Witness ==
    /\ Len(events) = 5
    /\ syscall.call_num = YieldNum
    /\ Unwrap(syscall.ret) # syscall.stack_p
    /\ Regs["rip"] # Unwrap(at_entry[running]).regs["rip"]
    /\ cpu[running].ip = 0

\* C16: in the entry sequence without preemption nothing is written to the
\* stack before the caller's stack pointer is stored in the scratch slot;
\* the synthetic frame is 0, the caller's stack pointer at `syscall`, the
\* flags, the code segment, the return address, pushed in that order; when
\* the sequence ends the scratch slot is 0 again and the swap is undone.
C16_EntrySequence ==
    at_entry[running] # None =>
        LET entry == Unwrap(at_entry[running])
            ip == cpu[running].ip
            rsp0 == entry.regs["rsp"]
            slot == entry.kernel_gs_base + ScratchSlot
        IN  /\ (1 <= ip /\ ip <= StashIdx) =>
                   /\ \A a \in StackAddrs : mem[a] = entry.mem[a]
                   /\ Regs["rsp"] = rsp0
            /\ (StashIdx < ip /\ ip <= RepushIdx) => mem[slot] = rsp0
            /\ (RepushIdx < ip /\ ip <= EntryLen + 1) => mem[rsp0 - 2 * WordSize] = rsp0
            /\ ip = EntryLen + 1 =>
                   /\ mem[rsp0 - WordSize] = 0
                   /\ mem[rsp0 - 2 * WordSize] = rsp0
                   /\ mem[rsp0 - 3 * WordSize] = entry.regs["rflags"]
                   /\ mem[rsp0 - 4 * WordSize] = entry.regs["cs"]
                   /\ mem[rsp0 - 5 * WordSize] = entry.regs["rip"]
                   /\ Regs["rsp"] = rsp0 - 5 * WordSize
                   /\ mem[slot] = 0
                   /\ gs_base = entry.gs_base
                   /\ kernel_gs_base = entry.kernel_gs_base

C16_Witness ==
    /\ at_entry[running] # None
    /\ cpu[running].ip = EntryLen + 1
    /\ Unwrap(at_entry[running]).regs["rsp"] = StackTop(running) - 2 * WordSize
    /\ mem[StackTop(running) - 4 * WordSize] = StackTop(running) - 2 * WordSize
    /\ events = <<>>

\* C20: a process that is preempted after it stashed its stack pointer in
\* the scratch slot and before it pushed it again, while another process
\* runs a complete syscall entry before it resumes, still pushes its own
\* stack pointer at `syscall` into the stack-pointer field of its frame.
C20_PreservedUnderPreemption ==
    \A a \in Pids :
        (/\ at_entry[a] # None
         /\ window[a].state = "back"
         /\ window[a].completed # {}
         /\ cpu[a].ip > RepushIdx)
            => LET rsp0 == Unwrap(at_entry[a]).regs["rsp"]
               IN  mem[rsp0 - 2 * WordSize] = rsp0

====
